---- MODULE Spec2Model ----
(***************************************************************************)
(* Model of ignite::impl::interop::InteropInputStream                      *)
(* (modules/platforms/cpp/binary/src/impl/interop/interop_input_stream.cpp)*)
(*                                                                         *)
(* The stream is a read cursor (data, len, pos) over an InteropMemory      *)
(* object it does not own.  All cursor arithmetic is done on int32_t; the  *)
(* model keeps that width: every sum, difference and shift is reduced to   *)
(* the two's complement value the compiled add/sub/shl instruction leaves  *)
(* in the register.  A read through an address that is not inside the      *)
(* owner's current storage is undefined in C++; the model lets it either   *)
(* fault (the process stops) or return indeterminate bytes.                *)
(***************************************************************************)
EXTENDS Integers, Sequences, FiniteSets, TLC

VARIABLES mem, cur, last, halted, seen

vars == <<mem, cur, last, halted, seen>>

(***************************************************************************)
(* seen[c] is history, not program state: "built" while the owner has not  *)
(* grown since the cursor c was constructed, "outdated" from a growth of   *)
(* the owner until the next Synchronize(), "resynced" after a Synchronize()*)
(* that followed a growth.                                                 *)
(***************************************************************************)

(***************************************************************************)
(* int32_t arithmetic.  The model checker's own integers are 32 bits wide  *)
(* and trap on overflow, so the wrapped result is computed without ever    *)
(* leaving the representable range.                                        *)
(***************************************************************************)
MaxInt32 == 2147483647

MinInt32 == (-MaxInt32) - 1

Add32(a, b) ==
    IF a >= 0 /\ b >= 0 /\ a > MaxInt32 - b
    THEN (a - MaxInt32 - 1) + (b - MaxInt32 - 1)
    ELSE IF a < 0 /\ b < 0 /\ a < MinInt32 - b
    THEN (a + MaxInt32 + 1) + (b + MaxInt32 + 1)
    ELSE a + b

Sub32(a, b) ==
    IF b = MinInt32 THEN Add32(a, MinInt32) ELSE Add32(a, -b)

RECURSIVE Shl32(_, _)
Shl32(a, k) == IF k = 0 THEN a ELSE Shl32(Add32(a, a), k - 1)

(***************************************************************************)
(* Bounds of the exploration.                                              *)
(***************************************************************************)
\* largest logical length the owner's region reaches
MaxLen == 9

\* how many times the owner moves its storage to a new address
MaxReloc == 1

\* positions are explored within PosSpan of 0, of INT32_MIN and of INT32_MAX
PosSpan == 12

\* the longest ReadBoolArray loop that is unrolled
MaxLoop == 12

Cursors == {"A", "B"}

\* the 32-bit arguments the operations are called with
Int32Args == {MinInt32, -3, -1, 0, 1, 2, 3, 5, 1073741824, MaxInt32}

\* lengths of the owner's region at start
InitLens == {0, 5}

\* number of bytes one growth of the owner appends
GrowSteps == {4}

\* what an indeterminate byte may turn out to be
GarbageBytes == {0, 255}

InWindow(p) ==
    \/ p >= -PosSpan /\ p <= PosSpan
    \/ p <= MinInt32 + PosSpan
    \/ p >= MaxInt32 - PosSpan

(***************************************************************************)
(* The owner (InteropMemory): a contiguous region of Length() bytes at     *)
(* address Data().  Its content is a fixed byte pattern, so that every     *)
(* offset holds a known value and neighbouring offsets differ.             *)
(***************************************************************************)
PatTable == <<1, 0, 1, 2, 255, 128, 7, 64, 3, 254, 127, 9>>

PatByte(i) == PatTable[((i - 1) % Len(PatTable)) + 1]

PatBytes(n) == [i \in 1..n |-> PatByte(i)]

MemData == mem.ptr

MemLength == Len(mem.bytes)

NoCursor == [st |-> "none", data |-> 0, len |-> 0, pos |-> 0]

NoLast ==
    [c |-> "A", op |-> "none", arg |-> 0, size |-> 0, status |-> "none",
     value |-> 0, valid |-> TRUE, off |-> 0, n |-> 0, pre |-> NoCursor,
     premem |-> [ptr |-> 0, bytes |-> <<>>]]

Done(c, op, arg, size, status, value, valid, off, n) ==
    [c |-> c, op |-> op, arg |-> arg, size |-> size, status |-> status,
     value |-> value, valid |-> valid, off |-> off, n |-> n, pre |-> cur[c],
     premem |-> mem]

\* no call is in progress and the caller holds no outcome of an earlier call
Idle == ~halted /\ last.op = "none"

Init ==
    /\ mem \in {[ptr |-> 0, bytes |-> PatBytes(n)] : n \in InitLens}
    /\ cur = [c \in Cursors |-> NoCursor]
    /\ last = NoLast
    /\ halted = FALSE
    /\ seen = [c \in Cursors |-> "none"]

(***************************************************************************)
(* Constructors.                                                           *)
(***************************************************************************)
\* InteropInputStream(const InteropMemory* mem)
Create(c) ==
    /\ Idle
    /\ cur[c].st = "none"
    /\ cur' = [cur EXCEPT ![c] =
                 [st |-> "live", data |-> MemData, len |-> MemLength, pos |-> 0]]
    /\ last' = Done(c, "Create", 0, 0, "ok", 0, TRUE, 0, 0)
    /\ seen' = [seen EXCEPT ![c] = "built"]
    /\ UNCHANGED <<mem, halted>>

\* CreateLen with the length check off by one: a view of the whole region is refused
CreateLen_OffByOne(c, len) ==
    /\ Idle
    /\ cur[c].st = "none"
    /\ IF len >= MemLength
       THEN /\ cur' = cur
            /\ seen' = seen
            /\ last' = Done(c, "CreateLen", len, 0, "OutOfBounds", 0, TRUE, 0, 0)
       ELSE /\ cur' = [cur EXCEPT ![c] =
                         [st |-> "live", data |-> MemData, len |-> len, pos |-> 0]]
            /\ seen' = [seen EXCEPT ![c] = "built"]
            /\ last' = Done(c, "CreateLen", len, 0, "ok", 0, TRUE, 0, 0)
    /\ UNCHANGED <<mem, halted>>

\* InteropInputStream(const InteropMemory* mem, int32_t len): the exception
\* leaves the constructor, so no object comes into being
CreateLen(c, len) ==
    /\ Idle
    /\ cur[c].st = "none"
    /\ IF len > MemLength
       THEN /\ cur' = cur
            /\ seen' = seen
            /\ last' = Done(c, "CreateLen", len, 0, "OutOfBounds", 0, TRUE, 0, 0)
       ELSE /\ cur' = [cur EXCEPT ![c] =
                         [st |-> "live", data |-> MemData, len |-> len, pos |-> 0]]
            /\ seen' = [seen EXCEPT ![c] = "built"]
            /\ last' = Done(c, "CreateLen", len, 0, "ok", 0, TRUE, 0, 0)
    /\ UNCHANGED <<mem, halted>>

(***************************************************************************)
(* Access to the owner's bytes through the cached base address.            *)
(***************************************************************************)
Live(c) == Idle /\ cur[c].st = "live"

\* the n bytes at data + off are inside the owner's storage
ValidRange(s, off, n) ==
    /\ s.data = MemData
    /\ off >= 0
    /\ n >= 0
    /\ n <= MemLength
    /\ off <= MemLength - n

BytesAt(off, n) == [i \in 1..n |-> mem.bytes[off + i]]

Fill(g, n) == [i \in 1..n |-> g]

\* the byte strings the n-byte load at data + off can deliver
Loaded(s, off, n) ==
    IF ValidRange(s, off, n) THEN {BytesAt(off, n)}
    ELSE {Fill(g, n) : g \in GarbageBytes}

(***************************************************************************)
(* reinterpret_cast of a byte string (host byte order: little endian).     *)
(***************************************************************************)
Int8Of(bs) == IF bs[1] >= 128 THEN bs[1] - 256 ELSE bs[1]

UInt16Of(bs) == bs[1] + 256 * bs[2]

Int16Of(bs) == IF UInt16Of(bs) >= 32768 THEN UInt16Of(bs) - 65536 ELSE UInt16Of(bs)

Int32Of(bs) ==
    bs[1] + 256 * bs[2] + 65536 * bs[3] + 16777216 * Int8Of(<<bs[4]>>)

\* an int64_t is kept as <<high word, low word>>, each an int32_t bit pattern
Int64Of(bs) == <<Int32Of(SubSeq(bs, 5, 8)), Int32Of(SubSeq(bs, 1, 4))>>

\* BinaryFloatInt32: the float whose bits are the int32_t i
FloatOfBits(i) ==
    LET m == IF i < 0 THEN (i + MaxInt32) + 1 ELSE i
    IN  [sign |-> IF i < 0 THEN 1 ELSE 0, exp |-> m \div 8388608, frac |-> m % 8388608]

\* BinaryDoubleInt64: the double whose bits are the int64_t <<hi, lo>>
DoubleOfBits(v) ==
    LET m == IF v[1] < 0 THEN (v[1] + MaxInt32) + 1 ELSE v[1]
    IN  [sign |-> IF v[1] < 0 THEN 1 ELSE 0, exp |-> m \div 1048576,
         frac |-> <<m % 1048576, v[2]>>]

\* a boolean decoded as any non-zero byte
BoolOf_NonZero(bs) == Int8Of(bs) # 0

\* ReadBool: ReadInt8() == 1
BoolOf(bs) == Int8Of(bs) = 1

\* ReadFloat: u.i = ReadInt32(); return u.f
FloatOf(bs) == FloatOfBits(Int32Of(bs))

\* ReadDouble: u.i = ReadInt64(); return u.d
DoubleOf(bs) == DoubleOfBits(Int64Of(bs))

\* the value each read hands back for the bytes bs it loaded
Decode(op, bs) ==
    CASE op \in {"ReadInt8", "ReadInt8At"} -> Int8Of(bs)
      [] op = "ReadBool" -> BoolOf(bs)
      [] op \in {"ReadInt16", "ReadInt16At"} -> Int16Of(bs)
      [] op = "ReadUInt16" -> UInt16Of(bs)
      [] op \in {"ReadInt32", "ReadInt32At"} -> Int32Of(bs)
      [] op = "ReadInt64" -> Int64Of(bs)
      [] op = "ReadFloat" -> FloatOf(bs)
      [] op = "ReadDouble" -> DoubleOf(bs)

(***************************************************************************)
(* Private helpers.                                                        *)
(***************************************************************************)
\* EnsureEnoughData(cnt): TRUE when it returns, FALSE when it throws
EnsureEnoughData(s, cnt) == Sub32(s.len, s.pos) >= cnt

\* Shift(cnt)
Shift(s, cnt) == [s EXCEPT !.pos = Add32(s.pos, cnt)]

\* IGNITE_INTEROP_IN_READ(type, len)
InRead(c, op, size) ==
    /\ Live(c)
    /\ LET s == cur[c] IN
       IF ~EnsureEnoughData(s, size)
       THEN /\ cur' = cur
            /\ halted' = halted
            /\ last' = Done(c, op, 0, size, "InsufficientData", 0, TRUE, s.pos, 0)
       ELSE \/ /\ ~ValidRange(s, s.pos, size)
               /\ cur' = cur
               /\ halted' = TRUE
               /\ last' = Done(c, op, 0, size, "fault", 0, FALSE, s.pos, size)
            \/ \E bs \in Loaded(s, s.pos, size) :
                 /\ InWindow(Shift(s, size).pos)
                 /\ cur' = [cur EXCEPT ![c] = Shift(s, size)]
                 /\ halted' = halted
                 /\ last' = Done(c, op, 0, size, "ok", Decode(op, bs),
                                 ValidRange(s, s.pos, size), s.pos, size)
    /\ UNCHANGED <<mem, seen>>

ReadInt8(c) == InRead(c, "ReadInt8", 1)

ReadBool(c) == InRead(c, "ReadBool", 1)

ReadInt16(c) == InRead(c, "ReadInt16", 2)

ReadUInt16(c) == InRead(c, "ReadUInt16", 2)

ReadInt32(c) == InRead(c, "ReadInt32", 4)

ReadInt64(c) == InRead(c, "ReadInt64", 8)

ReadFloat(c) == InRead(c, "ReadFloat", 4)

ReadDouble(c) == InRead(c, "ReadDouble", 8)

\* a positional read written with the sequential macro: it moves the cursor
InReadAt_Advances(c, op, size, p) ==
    /\ Live(c)
    /\ LET s == cur[c]
           delta == Sub32(Add32(p, size), s.pos)
       IN
       IF delta > 0 /\ ~EnsureEnoughData(s, delta)
       THEN /\ cur' = cur
            /\ halted' = halted
            /\ last' = Done(c, op, p, size, "InsufficientData", 0, TRUE, p, 0)
       ELSE \E bs \in Loaded(s, p, size) :
                 /\ InWindow(Shift(s, size).pos)
                 /\ cur' = [cur EXCEPT ![c] = Shift(s, size)]
                 /\ halted' = halted
                 /\ last' = Done(c, op, p, size, "ok", Decode(op, bs),
                                 ValidRange(s, p, size), p, size)
    /\ UNCHANGED <<mem, seen>>

\* ReadInt8(int32_t pos), ReadInt16(int32_t pos), ReadInt32(int32_t pos)
InReadAt(c, op, size, p) ==
    /\ Live(c)
    /\ LET s == cur[c]
           delta == Sub32(Add32(p, size), s.pos)
       IN
       IF delta > 0 /\ ~EnsureEnoughData(s, delta)
       THEN /\ halted' = halted
            /\ last' = Done(c, op, p, size, "InsufficientData", 0, TRUE, p, 0)
       ELSE \/ /\ ~ValidRange(s, p, size)
               /\ halted' = TRUE
               /\ last' = Done(c, op, p, size, "fault", 0, FALSE, p, size)
            \/ \E bs \in Loaded(s, p, size) :
                 /\ halted' = halted
                 /\ last' = Done(c, op, p, size, "ok", Decode(op, bs),
                                 ValidRange(s, p, size), p, size)
    /\ UNCHANGED <<mem, cur, seen>>

ReadInt8At(c, p) == InReadAt(c, "ReadInt8At", 1, p)

ReadInt16At(c, p) == InReadAt(c, "ReadInt16At", 2, p)

ReadInt32At(c, p) == InReadAt(c, "ReadInt32At", 4, p)

\* what memcpy leaves in the destination when its source range is not valid
Indeterminate(cnt) ==
    {Fill(g, IF cnt >= 0 /\ cnt <= MaxLen THEN cnt ELSE 0) : g \in GarbageBytes}

\* CopyAndShift(dest, off, cnt); memcpy takes cnt as size_t, so a negative
\* cnt is a length above 2^63
CopyAndShift(c, op, arg, shift, cnt) ==
    /\ Live(c)
    /\ LET s == cur[c] IN
       IF ~EnsureEnoughData(s, cnt)
       THEN /\ cur' = cur
            /\ halted' = halted
            /\ last' = Done(c, op, arg, shift, "InsufficientData", <<>>, TRUE, s.pos, 0)
       ELSE \/ /\ ~ValidRange(s, s.pos, cnt)
               /\ cur' = cur
               /\ halted' = TRUE
               /\ last' = Done(c, op, arg, shift, "fault", <<>>, FALSE, s.pos, cnt)
            \/ \E bs \in (IF ValidRange(s, s.pos, cnt)
                          THEN {BytesAt(s.pos, cnt)} ELSE Indeterminate(cnt)) :
                 /\ InWindow(Shift(s, cnt).pos)
                 /\ cur' = [cur EXCEPT ![c] = Shift(s, cnt)]
                 /\ halted' = halted
                 /\ last' = Done(c, op, arg, shift, "ok", bs,
                                 ValidRange(s, s.pos, cnt), s.pos, cnt)
    /\ UNCHANGED <<mem, seen>>

\* IGNITE_INTEROP_IN_READ_ARRAY(len, shift), as expanded in ReadInt8Array
\* (shift 0), ReadInt16Array and ReadUInt16Array (1), ReadInt32Array and
\* ReadFloatArray (2), ReadInt64Array and ReadDoubleArray (3)
InReadArray(c, len, shift) ==
    CopyAndShift(c, "ReadArray", len, shift, Shl32(len, shift))

\* the body of ReadBoolArray's loop from iteration i on; g is what an
\* indeterminate byte turns out to be
RECURSIVE BoolLoop(_, _, _, _, _, _)
BoolLoop(s, i, n, g, acc, valid) ==
    IF i >= n
    THEN [status |-> "ok", s |-> s, vals |-> acc, valid |-> valid]
    ELSE IF ~EnsureEnoughData(s, 1)
    THEN [status |-> "InsufficientData", s |-> s, vals |-> acc, valid |-> valid]
    ELSE LET ok == ValidRange(s, s.pos, 1)
             b == IF ok THEN BytesAt(s.pos, 1) ELSE <<g>>
         IN  BoolLoop(Shift(s, 1), i + 1, n, g, Append(acc, BoolOf(b)), valid /\ ok)

\* how many times ReadBoolArray's loop reads a byte
LoopIters(s, n) ==
    LET rem == Sub32(s.len, s.pos) IN
    IF n <= 0 \/ rem <= 0 THEN 0 ELSE IF n <= rem THEN n ELSE rem

\* ReadBoolArray(bool* res, int32_t len)
ReadBoolArray(c, len) ==
    /\ Live(c)
    /\ LoopIters(cur[c], len) <= MaxLoop
    /\ LET s == cur[c] IN
       \E g \in GarbageBytes :
         LET r == BoolLoop(s, 0, len, g, <<>>, TRUE) IN
         \/ /\ ~r.valid
            /\ cur' = cur
            /\ halted' = TRUE
            /\ last' = Done(c, "ReadBoolArray", len, 0, "fault", <<>>, FALSE, s.pos, 0)
         \/ /\ InWindow(r.s.pos)
            /\ cur' = [cur EXCEPT ![c] = r.s]
            /\ halted' = halted
            /\ last' = Done(c, "ReadBoolArray", len, 0, r.status, r.vals, r.valid,
                            s.pos, Len(r.vals))
    /\ UNCHANGED <<mem, seen>>

(***************************************************************************)
(* Position management.                                                    *)
(***************************************************************************)
\* Remaining()
Remaining(c) ==
    /\ Live(c)
    /\ last' = Done(c, "Remaining", 0, 0, "ok", Sub32(cur[c].len, cur[c].pos), TRUE, 0, 0)
    /\ UNCHANGED <<mem, cur, halted, seen>>

\* Position()
Position(c) ==
    /\ Live(c)
    /\ last' = Done(c, "Position", 0, 0, "ok", cur[c].pos, TRUE, 0, 0)
    /\ UNCHANGED <<mem, cur, halted, seen>>

\* SetPosition that stores the requested position before it checks it
SetPosition_StoreFirst(c, p) ==
    /\ Live(c)
    /\ InWindow(p)
    /\ cur' = [cur EXCEPT ![c].pos = p]
    /\ last' = Done(c, "SetPosition", p, 0,
                    IF p <= cur[c].len THEN "ok" ELSE "OutOfBounds", 0, TRUE, 0, 0)
    /\ UNCHANGED <<mem, halted, seen>>

\* Position(int32_t pos)
SetPosition(c, p) ==
    /\ Live(c)
    /\ IF p <= cur[c].len
       THEN /\ InWindow(p)
            /\ cur' = [cur EXCEPT ![c].pos = p]
            /\ last' = Done(c, "SetPosition", p, 0, "ok", 0, TRUE, 0, 0)
       ELSE /\ cur' = cur
            /\ last' = Done(c, "SetPosition", p, 0, "OutOfBounds", 0, TRUE, 0, 0)
    /\ UNCHANGED <<mem, halted, seen>>

\* Ignore(int32_t cnt)
Ignore(c, cnt) ==
    /\ Live(c)
    /\ InWindow(Shift(cur[c], cnt).pos)
    /\ cur' = [cur EXCEPT ![c] = Shift(cur[c], cnt)]
    /\ last' = Done(c, "Ignore", cnt, 0, "ok", 0, TRUE, 0, 0)
    /\ UNCHANGED <<mem, halted, seen>>

\* what the cursor has seen of the owner once it has synchronized
Resynced(h) == IF h = "outdated" THEN "resynced" ELSE h

\* Synchronize that refreshes the length but keeps the old base address
Synchronize_LenOnly(c) ==
    /\ Live(c)
    /\ cur' = [cur EXCEPT ![c].len = MemLength]
    /\ last' = Done(c, "Synchronize", 0, 0, "ok", 0, TRUE, 0, 0)
    /\ seen' = [seen EXCEPT ![c] = Resynced(seen[c])]
    /\ UNCHANGED <<mem, halted>>

\* Synchronize that refreshes the base address but keeps the old length
Synchronize_BaseOnly(c) ==
    /\ Live(c)
    /\ cur' = [cur EXCEPT ![c].data = MemData]
    /\ last' = Done(c, "Synchronize", 0, 0, "ok", 0, TRUE, 0, 0)
    /\ seen' = [seen EXCEPT ![c] = Resynced(seen[c])]
    /\ UNCHANGED <<mem, halted>>

\* Synchronize that refreshes every cursor of the owner, as if base and limit
\* were the owner's state and not the cursor's
Synchronize_Shared(c) ==
    /\ Live(c)
    /\ cur' = [d \in Cursors |->
                 IF cur[d].st = "live"
                 THEN [cur[d] EXCEPT !.data = MemData, !.len = MemLength]
                 ELSE cur[d]]
    /\ last' = Done(c, "Synchronize", 0, 0, "ok", 0, TRUE, 0, 0)
    /\ seen' = [seen EXCEPT ![c] = Resynced(seen[c])]
    /\ UNCHANGED <<mem, halted>>

\* Synchronize()
Synchronize(c) ==
    /\ Live(c)
    /\ cur' = [cur EXCEPT ![c].data = MemData, ![c].len = MemLength]
    /\ last' = Done(c, "Synchronize", 0, 0, "ok", 0, TRUE, 0, 0)
    /\ seen' = [seen EXCEPT ![c] = Resynced(seen[c])]
    /\ UNCHANGED <<mem, halted>>

(***************************************************************************)
(* The owner's side: its region grows by k bytes, in place or at a new     *)
(* address; the old storage is released when it moves.                     *)
(***************************************************************************)
Grow(k, moved) ==
    /\ Idle
    /\ MemLength + k <= MaxLen
    /\ moved => mem.ptr < MaxReloc
    /\ mem' = [ptr |-> IF moved THEN mem.ptr + 1 ELSE mem.ptr,
               bytes |-> PatBytes(MemLength + k)]
    /\ last' = [NoLast EXCEPT !.op = "Grow", !.arg = k, !.status = "ok", !.premem = mem]
    /\ UNCHANGED <<cur, halted>>
    /\ seen' = [c \in Cursors |-> IF cur[c].st = "live" THEN "outdated" ELSE seen[c]]

(***************************************************************************)
(* The caller: it takes the outcome of the call (the returned value or the *)
(* IgniteError) before it makes the next call.                             *)
(***************************************************************************)
Return ==
    /\ ~halted
    /\ last.op # "none"
    /\ last' = NoLast
    /\ UNCHANGED <<mem, cur, halted, seen>>

Next ==
    \/ Return
    \/ \E k \in GrowSteps, moved \in BOOLEAN : Grow(k, moved)
    \/ \E c \in {"A"} :
        \/ Create(c)
        \/ \E a \in Int32Args : CreateLen(c, a)
        \/ ReadInt8(c)
        \/ ReadBool(c)
        \/ ReadInt16(c)
        \/ ReadUInt16(c)
        \/ ReadInt32(c)
        \/ ReadInt64(c)
        \/ ReadFloat(c)
        \/ ReadDouble(c)
        \/ \E p \in Int32Args : ReadInt8At(c, p)
        \/ \E p \in Int32Args : ReadInt16At(c, p)
        \/ \E p \in Int32Args : ReadInt32At(c, p)
        \/ \E n \in Int32Args, shift \in 0..3 : InReadArray(c, n, shift)
        \/ \E n \in Int32Args : ReadBoolArray(c, n)
        \/ Remaining(c)
        \/ Position(c)
        \/ \E p \in Int32Args : SetPosition(c, p)
        \/ \E n \in Int32Args : Ignore(c, n)
        \/ Synchronize(c)

Spec == Init /\ [][Next]_vars

(***************************************************************************)
(* Two cursors over the same owner, their calls interleaved in any order.  *)
(***************************************************************************)
TwoArgs == {0, 3}

NextTwo ==
    \/ Return
    \/ \E k \in GrowSteps : Grow(k, TRUE)
    \/ \E c \in Cursors :
        \/ Create(c)
        \/ \E a \in TwoArgs : CreateLen(c, a)
        \/ ReadInt8(c)
        \/ ReadBool(c)
        \/ ReadInt16(c)
        \/ ReadUInt16(c)
        \/ ReadInt32(c)
        \/ ReadInt64(c)
        \/ ReadFloat(c)
        \/ ReadDouble(c)
        \/ \E p \in TwoArgs : ReadInt8At(c, p)
        \/ \E p \in TwoArgs : ReadInt16At(c, p)
        \/ \E p \in TwoArgs : ReadInt32At(c, p)
        \/ \E n \in TwoArgs : InReadArray(c, n, 1)
        \/ \E n \in TwoArgs : ReadBoolArray(c, n)
        \/ Remaining(c)
        \/ Position(c)
        \/ \E p \in TwoArgs : SetPosition(c, p)
        \/ \E n \in TwoArgs : Ignore(c, n)
        \/ Synchronize(c)

SpecTwo == Init /\ [][NextTwo]_vars

(***************************************************************************)
(* Properties.  `last' is the outcome the caller holds of the call that    *)
(* just ended: the operation, its argument, the cursor and the owner as    *)
(* they were before it (pre, premem), the status, the value returned and   *)
(* the byte range [off, off + n) it loaded.  The cursor after the call is  *)
(* cur[last.c].                                                            *)
(***************************************************************************)
SeqOps ==
    {"ReadInt8", "ReadBool", "ReadInt16", "ReadUInt16", "ReadInt32", "ReadInt64",
     "ReadFloat", "ReadDouble"}

AtOps == {"ReadInt8At", "ReadInt16At", "ReadInt32At"}

\* the owner's bytes [off, off + n) as they were before the call
PreBytes(off, n) == [i \in 1..n |-> last.premem.bytes[off + i]]

\* [off, off + n) lies inside the owner's region as it was before the call
PreInside(off, n) ==
    off >= 0 /\ n >= 0 /\ n <= Len(last.premem.bytes) /\ off <= Len(last.premem.bytes) - n

\* len - pos >= n over the integers (no 32-bit wrap), for n >= 0
EnoughExact(s, n) == IF s.pos > MaxInt32 - n THEN FALSE ELSE s.len >= s.pos + n

\* C1: every constructed cursor satisfies 0 <= position <= limit.
C1_PositionWithinLimit ==
    \A c \in Cursors :
        cur[c].st = "live" => 0 <= cur[c].pos /\ cur[c].pos <= cur[c].len

\* C2: a sequential or array read that succeeds loads only bytes at offsets
\* o with 0 <= o < limit: its range [position, position + n) lies in [0, limit).
C2_ReadsInsideLimit ==
    (last.op \in SeqOps \cup {"ReadArray", "ReadBoolArray"} /\ last.status = "ok"
        /\ last.n # 0)
    => /\ last.off = last.pre.pos
       /\ last.off >= 0
       /\ last.n > 0
       /\ last.n <= last.pre.len
       /\ last.off <= last.pre.len - last.n

\* C3: Create(owner) gives limit = owner.Length() and position 0;
\* Create(owner, limit) succeeds with that limit and position 0 when
\* limit <= owner.Length(), and otherwise fails with the out-of-bounds error
\* and leaves no cursor.
C3_Construction ==
    /\ last.op = "Create"
       => /\ last.status = "ok"
          /\ cur[last.c] = [st |-> "live", data |-> last.premem.ptr,
                            len |-> Len(last.premem.bytes), pos |-> 0]
    /\ last.op = "CreateLen"
       => IF last.arg <= Len(last.premem.bytes)
          THEN /\ last.status = "ok"
               /\ cur[last.c] = [st |-> "live", data |-> last.premem.ptr,
                                 len |-> last.arg, pos |-> 0]
          ELSE /\ last.status = "OutOfBounds"
               /\ cur[last.c].st = "none"

C3_Witness ==
    /\ last.op = "CreateLen"
    /\ last.arg > Len(last.premem.bytes)
    /\ last.status = "OutOfBounds"
    /\ cur[last.c].st = "none"

\* C4: a sequential read of width size with limit - position >= size returns
\* the value encoded by the bytes at [position, position + size) and advances
\* position by size, limit and base unchanged; with limit - position < size it
\* fails with the insufficient-data error and changes nothing.  (A read
\* through a base the owner has moved away from is left out: the value there
\* is undefined by contract.)
C4_SequentialRead ==
    (last.op \in SeqOps /\ last.pre.data = last.premem.ptr)
    => LET s == last.pre IN
       IF EnoughExact(s, last.size)
       THEN /\ last.status = "ok"
            /\ PreInside(s.pos, last.size)
            /\ last.value = Decode(last.op, PreBytes(s.pos, last.size))
            /\ cur[last.c] = [s EXCEPT !.pos = s.pos + last.size]
       ELSE /\ last.status = "InsufficientData"
            /\ cur[last.c] = s

\* C5: an array read of count elements of width w fails with the
\* insufficient-data error and leaves position unchanged when fewer than
\* count * w bytes remain, and otherwise copies exactly count * w bytes from
\* position and advances position by count * w.  (Stated here for count >= 0
\* from a cursor with 0 <= position <= limit and a current base.)
C5_ArrayRead ==
    (/\ last.op = "ReadArray"
     /\ last.arg >= 0
     /\ last.pre.data = last.premem.ptr
     /\ 0 <= last.pre.pos /\ last.pre.pos <= last.pre.len)
    => LET s == last.pre
           w == 2 ^ last.size
           rem == s.len - s.pos
       IN
       IF last.arg > rem \div w
       THEN /\ last.status = "InsufficientData"
            /\ cur[last.c] = s
       ELSE /\ last.status = "ok"
            /\ last.n = last.arg * w
            /\ PreInside(s.pos, last.arg * w)
            /\ last.value = PreBytes(s.pos, last.arg * w)
            /\ cur[last.c] = [s EXCEPT !.pos = s.pos + last.arg * w]

\* C6: Skip(count) with count > Remaining() fails with the insufficient-data
\* error and leaves position unchanged; otherwise position advances by count;
\* no Skip leaves position > limit.
C6_SkipChecked ==
    last.op = "Ignore"
    => LET s == last.pre IN
       /\ IF last.arg > Sub32(s.len, s.pos)
          THEN last.status = "InsufficientData" /\ cur[last.c] = s
          ELSE last.status = "ok" /\ cur[last.c] = [s EXCEPT !.pos = Add32(s.pos, last.arg)]
       /\ cur[last.c].pos <= cur[last.c].len

\* C7: SetPosition(p) with p <= limit sets position to p (Position() then
\* returns p); with p > limit it fails with the out-of-bounds error and leaves
\* position unchanged; limit and base are unchanged either way.
C7_SetPosition ==
    /\ last.op = "SetPosition"
       => LET s == last.pre IN
          IF last.arg <= s.len
          THEN last.status = "ok" /\ cur[last.c] = [s EXCEPT !.pos = last.arg]
          ELSE last.status = "OutOfBounds" /\ cur[last.c] = s
    /\ last.op = "Position"
       => last.status = "ok" /\ last.value = cur[last.c].pos /\ cur[last.c] = last.pre

C7_Witness ==
    /\ last.op = "SetPosition"
    /\ last.arg > last.pre.len
    /\ last.pre.pos > 0
    /\ last.status = "OutOfBounds"

\* C8: SetPosition(p) with p < 0 fails and leaves position unchanged.
C8_NegativePositionRejected ==
    (last.op = "SetPosition" /\ last.arg < 0)
    => last.status # "ok" /\ cur[last.c].pos = last.pre.pos

\* C9: a ReadBoolArray that fails for lack of data leaves position unchanged.
C9_BoolArrayAllOrNothing ==
    (last.op = "ReadBoolArray" /\ last.status = "InsufficientData")
    => cur[last.c].pos = last.pre.pos

\* C10: a positional read of width size at pos fails with the
\* insufficient-data error exactly when delta = pos + size - position > 0 and
\* limit - position < delta; in every other case it returns the value encoded
\* by the bytes at [pos, pos + size).  (delta and limit - position are taken
\* as the code computes them; a read through a moved base is left out.)
C10_PositionalRead ==
    (last.op \in AtOps /\ last.pre.data = last.premem.ptr)
    => LET s == last.pre
           delta == Sub32(Add32(last.arg, last.size), s.pos)
       IN
       IF delta > 0 /\ Sub32(s.len, s.pos) < delta
       THEN last.status = "InsufficientData"
       ELSE /\ last.status = "ok"
            /\ PreInside(last.arg, last.size)
            /\ last.value = Decode(last.op, PreBytes(last.arg, last.size))

\* C11: positional reads, Remaining() and Position() leave position, limit
\* and base as they were, for every argument, whether the call returns a
\* value or fails.
C11_QueriesKeepCursor ==
    last.op \in AtOps \cup {"Remaining", "Position"}
    => cur[last.c] = last.pre

C11_Witness ==
    /\ last.op \in AtOps
    /\ last.status = "ok"
    /\ last.valid
    /\ last.pre.pos > 0
    /\ last.arg > last.pre.pos
    /\ cur[last.c] = last.pre

\* C12: Synchronize() sets limit to the owner's Length() and base to the
\* owner's Data(), leaves position unchanged, never fails and never changes
\* the owner, however the cursor was built.
C12_Synchronize ==
    last.op = "Synchronize"
    => /\ last.status = "ok"
       /\ cur[last.c] = [last.pre EXCEPT !.data = last.premem.ptr,
                                         !.len = Len(last.premem.bytes)]
       /\ mem = last.premem

C12_Witness ==
    /\ last.op = "Synchronize"
    /\ last.pre.data # last.premem.ptr
    /\ last.pre.len # Len(last.premem.bytes)
    /\ last.pre.pos > 0
    /\ cur[last.c].pos = last.pre.pos
    /\ cur[last.c].len = Len(mem.bytes)
    /\ cur[last.c].data = mem.ptr

\* C13: once the owner has grown, and until Synchronize() is called, a
\* sequential read that would cross the old limit (it starts at or before
\* the cached limit and ends past it) still fails with the insufficient-data
\* error; after Synchronize() every sequential read whose range lies within
\* the new length succeeds, advances position and returns the bytes the
\* owner's new storage holds at that offset.
C13_GrowthNeedsSynchronize ==
    last.op \in SeqOps
    => LET s == last.pre IN
       /\ (/\ seen[last.c] = "outdated"
           /\ s.pos <= s.len
           /\ s.len < s.pos + last.size)
          => /\ last.status = "InsufficientData"
             /\ cur[last.c] = s
       /\ (/\ seen[last.c] = "resynced"
           /\ s.pos >= 0
           /\ s.pos <= Len(last.premem.bytes) - last.size)
          => /\ last.status = "ok"
             /\ last.valid
             /\ last.value = Decode(last.op, PreBytes(s.pos, last.size))
             /\ cur[last.c] = [s EXCEPT !.pos = s.pos + last.size]

\* a read that ends at the last byte of the grown and moved region, after
\* the cursor has synchronized
C13_Witness ==
    /\ last.op \in SeqOps
    /\ seen[last.c] = "resynced"
    /\ last.premem.ptr > 0
    /\ last.status = "ok"
    /\ last.size > 1
    /\ last.off + last.n = Len(last.premem.bytes)
    /\ last.value = Decode(last.op, PreBytes(last.off, last.n))

\* a read across the old limit that fails while the cursor is out of date
C13_WitnessStale ==
    /\ last.op \in SeqOps
    /\ seen[last.c] = "outdated"
    /\ last.pre.pos > 0
    /\ last.pre.pos < last.pre.len
    /\ last.pre.pos + last.size <= Len(last.premem.bytes)
    /\ last.status = "InsufficientData"

\* len - pos is representable in 32 bits
DiffFits(s) ==
    /\ ~(s.pos < 0 /\ s.len > MaxInt32 + s.pos)
    /\ ~(s.pos > 0 /\ s.len < MinInt32 + s.pos)

\* C14: Remaining() always equals limit - position; once position has
\* reached limit, Remaining() is 0 and a 1-byte read fails with the
\* insufficient-data error; the cursor is still usable there: SetPosition(p)
\* with 0 <= p <= limit succeeds, and a read that fits between position and
\* limit works.
C14_RemainingAndExhaustion ==
    LET s == last.pre IN
    /\ last.op = "Remaining"
       => DiffFits(s) /\ last.value = s.len - s.pos
    /\ (last.op = "Remaining" /\ s.pos = s.len) => last.value = 0
    /\ (last.op \in {"ReadInt8", "ReadBool"} /\ s.pos = s.len)
       => last.status = "InsufficientData" /\ cur[last.c] = s
    /\ (last.op = "SetPosition" /\ 0 <= last.arg /\ last.arg <= s.len)
       => last.status = "ok" /\ cur[last.c].pos = last.arg
    /\ (/\ last.op \in SeqOps
        /\ s.data = last.premem.ptr
        /\ 0 <= s.pos
        /\ s.pos <= s.len
        /\ s.len - s.pos >= last.size)
       => last.status = "ok" /\ last.valid

\* C15: cursors over the same owner are independent views: under any
\* interleaving of calls on cursors A and B, a call on one cursor leaves the
\* position, limit and base of the other unchanged, and no cursor call
\* changes the owner's bytes, length or address.
C15_IndependentViews ==
    [][(last.op = "none" /\ last'.op \notin {"none", "Grow"})
       => /\ mem' = mem
          /\ \A d \in Cursors \ {last'.c} : cur'[d] = cur[d]]_vars

C15_Witness ==
    /\ last.op \in SeqOps \cup {"Synchronize", "ReadArray"}
    /\ last.c = "A"
    /\ last.status = "ok"
    /\ cur["A"] # last.pre
    /\ cur["B"].st = "live"
    /\ cur["B"].pos > 0
    /\ cur["B"].pos # cur["A"].pos
    /\ cur["B"].len # cur["A"].len

\* C16: ReadBool returns true iff the byte at position is exactly 1 (0, 2,
\* 0xFF and every other value give false); a successful ReadBoolArray(count)
\* returns count elements, element i being true iff the byte at position + i
\* is 1, and advances position by count.
C16_BoolDecoding ==
    LET s == last.pre IN
    /\ (last.op = "ReadBool" /\ last.status = "ok" /\ last.valid)
       => /\ last.value = (PreBytes(s.pos, 1)[1] = 1)
          /\ cur[last.c] = [s EXCEPT !.pos = s.pos + 1]
    /\ (last.op = "ReadBoolArray" /\ last.status = "ok" /\ last.valid /\ last.arg >= 0)
       => /\ Len(last.value) = last.arg
          /\ \A i \in 1..last.arg :
                last.value[i] = (PreBytes(s.pos + (i - 1), 1)[1] = 1)
          /\ cur[last.c] = [s EXCEPT !.pos = s.pos + last.arg]

C16_Witness ==
    /\ last.op = "ReadBoolArray"
    /\ last.status = "ok"
    /\ last.valid
    /\ last.arg = 5
    /\ PreBytes(last.pre.pos, 5) = <<1, 0, 1, 2, 255>>
    /\ last.value = <<TRUE, FALSE, TRUE, FALSE, FALSE>>
    /\ cur[last.c].pos = 5

\* C17: a positional read that returns a value reads only bytes inside the
\* view: for every 32-bit pos (negative ones and those whose pos + size
\* overflows included) and every reachable cursor state, success implies
\* 0 <= pos and pos + size <= limit.
C17_PositionalReadInsideView ==
    (last.op \in AtOps /\ last.status = "ok")
    => /\ 0 <= last.arg
       /\ last.pre.len >= last.size
       /\ last.arg <= last.pre.len - last.size

\* C18: position moves monotonically under reads and Skip: after every
\* sequential read, array read (any count) and Skip (any count) the position
\* is >= the position before the call; only SetPosition moves it backwards.
C18_PositionMonotone ==
    last.op \notin {"none", "Grow", "Create", "CreateLen", "SetPosition"}
    => cur[last.c].pos >= last.pre.pos

\* C19: a cursor built with an explicit limit L smaller than the owner's
\* length stays a bounded view: while the owner is unchanged, every cursor
\* operation (Synchronize, Skip and SetPosition included) leaves the limit at
\* L and no read succeeds on a byte at offset >= L.  A cursor that is still
\* "built" with len below the owner's length is such a view: the owner has
\* not changed since construction and nothing has yet replaced its limit.
C19_BoundedViewKept ==
    (/\ last.op \notin {"none", "Grow", "Create", "CreateLen"}
     /\ seen[last.c] = "built"
     /\ last.pre.len < Len(last.premem.bytes))
    => /\ cur[last.c].len = last.pre.len
       /\ (/\ last.op \in SeqOps \cup AtOps \cup {"ReadArray", "ReadBoolArray"}
           /\ last.status = "ok"
           /\ last.n > 0)
          => /\ last.pre.len >= last.n
             /\ last.off <= last.pre.len - last.n

\* C20: the cached limit never exceeds the owner's length: with an owner
\* that only grows, every constructed cursor has limit <= owner.Length() in
\* every reachable state, so a read that has passed the limit check (a
\* sequential or array read that did not fail, a positional read whose
\* delta was positive) loads no byte past the owner's current length.
C20_LimitWithinOwner ==
    /\ \A c \in Cursors : cur[c].st = "live" => cur[c].len <= Len(mem.bytes)
    /\ (/\ \/ last.op \in SeqOps \cup {"ReadArray", "ReadBoolArray"}
           \/ /\ last.op \in AtOps
              /\ Sub32(Add32(last.arg, last.size), last.pre.pos) > 0
        /\ last.status \in {"ok", "fault"}
        /\ last.n > 0)
       => last.off <= Len(last.premem.bytes) - last.n

====
